---- MODULE Spec2Model ----
(***************************************************************************)
(* Model of the turn-based combat engine (combat_system.py), of the       *)
(* multiplayer session manager and its team turn order                     *)
(* (multiplayer_system.py), of character progression                       *)
(* (character_system.py) and of quest generation (quest_system.py).        *)
(*                                                                         *)
(* The subsystems share no state; each has its own specification over the  *)
(* one list of variables, with the other subsystems idle:                  *)
(*   CombatSpec   the combat engine, from initialize_combat                *)
(*   CopySpec     the combat engine and the records it was given           *)
(*   DuelSpec     a combat in which the player attacks on every turn       *)
(*   SessionSpec  the session manager, calls one after the other           *)
(*   LobbySpec    the session manager with three players                   *)
(*   RaceSpec     two calls of the session manager run concurrently        *)
(*   LevelSpec    create_character followed by level_up                    *)
(*   TeamSpec     the turn order of a team combat                          *)
(*   QuestSpec    the quest generate_quest returns                         *)
(*   PartySpec    the quests generate_multiplayer_quest returns            *)
(* Random draws (random.randint, random.random, random.choice,             *)
(* random.sample, uuid.uuid4) are inputs chosen with \E.                   *)
(***************************************************************************)
EXTENDS Integers, Sequences, FiniteSets, TLC

VARIABLES
    player,            \* combat_state['player']   (the copy made by initialize_combat)
    enemy,             \* combat_state['enemy']    (the copy made by initialize_combat)
    turn,              \* combat_state['turn']     "player" | "enemy"
    round,             \* combat_state['round']
    status,            \* combat_state['status']   "ongoing" | "victory" | "defeat"
    log,               \* combat_state['log']      sequence of message kinds
    player_defending,  \* combat_state.get('player_defending', False)
    active_sessions,   \* MultiplayerSystem.active_sessions : session_id -> GameSession
    player_sessions,   \* MultiplayerSystem.player_sessions : player name -> session_id
    now,               \* time.time(), in seconds
    started_ids,       \* history: the session ids for which start_session has returned True
    threads,           \* concurrent callers of the session manager: thread -> call in progress
    detached,          \* GameSession objects deleted from active_sessions that a call still holds
    character,         \* the character record handed to CharacterSystem.level_up
    team,              \* a roster and the turn order create_team_combat_state derives from it
    quest,             \* the quest dictionary generate_quest builds, and the player's level
    bestiary,          \* QuestSystem.ancient_creatures of the quest system in use
    passed_in,         \* the player and enemy records handed to initialize_combat
    last               \* the call that produced this state and what it returned

combatVars  == <<player, enemy, turn, round, status, log, player_defending>>
sessionVars == <<active_sessions, player_sessions, now, started_ids>>
otherVars   == <<threads, detached, character, team, quest, bestiary, passed_in>>
vars == <<player, enemy, turn, round, status, log, player_defending,
          active_sessions, player_sessions, now, started_ids,
          threads, detached, character, team, quest, bestiary, passed_in, last>>

(***************************************************************************)
(* Bounds of the model                                                     *)
(***************************************************************************)
\* calls are taken while the combat log has fewer than MaxLog entries
MaxLog == 5
\* the clock advances at most MaxTime hours
MaxTime == 1

Max(a, b) == IF a >= b THEN a ELSE b
Min(a, b) == IF a <= b THEN a ELSE b
Abs(x) == IF x < 0 THEN -x ELSE x

Call(op, arg, who, ret) == [op |-> op, arg |-> arg, who |-> who, ret |-> ret]

(***************************************************************************)
(* Combat engine                                                           *)
(***************************************************************************)

\* int(x * (n/10)) for the multipliers 1.1 .. 1.6 the code uses.  Python's
\* float product truncates to (x*n) \div 10 for every 0 <= x < 300 except
\* for 1.4 at the listed x, where the product falls just below the integer.
TruncMul(x, n) ==
    IF n = 14 /\ x \in {45, 85, 90, 165, 170, 175, 180}
    THEN (x * n) \div 10 - 1
    ELSE (x * n) \div 10

\* player records handed to initialize_combat
PlayerInputs ==
    [current_hp : {1, 7, 20}, max_hp : {20},
     strength : {12}, agility : {12}, defense : {10}]

\* special_abilities lists of the bestiary (quest_system.py) and the empty list
AbilityLists ==
    { <<>>,
      <<"Crushing Bite", "Intimidating Roar">>,
      <<"Claw Swipe", "Bear Hug">>,
      <<"Piercing Beak", "Swift Strike">>,
      <<"Pack Howl", "Bite and Hold">>,
      <<"Venomous Bite", "Tail Whip">> }

\* enemy records handed to initialize_combat
EnemyInputs ==
    [current_hp : {2, 30}, max_hp : {30},
     attack : {16}, defense : {12}, special_abilities : AbilityLists]

\* the entries of ability_effects, and the default for an unlisted ability;
\* mult is damage_multiplier * 10, 0 when the entry has no damage_multiplier
Effect(mult, hits, eff) == [mult |-> mult, hits |-> hits, effect |-> eff]

ability_effects(ability) ==
    CASE ability = "Crushing Bite"     -> Effect(15, 1, "none")
      [] ability = "Intimidating Roar" -> Effect(0, 1, "stun")
      [] ability = "Tusk Charge"       -> Effect(13, 1, "none")
      [] ability = "Pounce"            -> Effect(14, 1, "none")
      [] ability = "Saber Strike"      -> Effect(16, 1, "none")
      [] ability = "Claw Swipe"        -> Effect(12, 1, "none")
      [] ability = "Bear Hug"          -> Effect(0, 1, "grapple")
      [] ability = "Heavy Slam"        -> Effect(13, 1, "none")
      [] ability = "Piercing Beak"     -> Effect(15, 1, "none")
      [] ability = "Swift Strike"      -> Effect(11, 2, "none")
      [] ability = "Pack Howl"         -> Effect(0, 1, "buff")
      [] ability = "Venomous Bite"     -> Effect(12, 1, "poison")
      [] ability = "Tail Whip"         -> Effect(11, 1, "none")
      [] OTHER                         -> Effect(12, 1, "none")

\* the damage not applied
ApplyDamage_none(hp, damage) == hp

\* max(0, current_hp - damage)
ApplyDamage(hp, damage) == Max(0, hp - damage)

\* the heal without the cap at max_hp
ApplyHealNoCap(hp, max_hp, heal_amount) == hp + heal_amount

\* min(max_hp, current_hp + heal_amount)
ApplyHeal(hp, max_hp, heal_amount) == Min(max_hp, hp + heal_amount)

\* variance is random.randint(-3, 3); crit is random.random() < crit_chance
calculate_player_damage(p, variance, crit) ==
    IF crit
    THEN Max(1, TruncMul(p.strength, 15) + Abs(variance))
    ELSE Max(1, p.strength + variance)

\* crit_chance = min(0.2, agility / 100); random.random() is in [0, 1)
CritPossible(p) == p.agility > 0

\* variance is random.randint(-2, 2)
calculate_enemy_damage(e, variance) == Max(1, e.attack + variance)

\* r1 is random.random() < 0.6, r2 is random.random() < 0.2
determine_enemy_action(e, r1, r2) ==
    IF 10 * e.current_hp < 3 * e.max_hp /\ e.special_abilities # <<>> /\ r1
    THEN "special"
    ELSE IF e.special_abilities # <<>> /\ r2
         THEN "special"
         ELSE "attack"

CombatInit ==
    /\ \E p \in PlayerInputs, e \in EnemyInputs :
          /\ player = p
          /\ enemy = e
    /\ turn = "player"
    /\ round = 1
    /\ status = "ongoing"
    /\ log = <<"begin">>
    /\ player_defending = FALSE
    /\ last = Call("initialize_combat", "none", "none", "none")

SessionIdle ==
    /\ active_sessions = <<>>
    /\ player_sessions = <<>>
    /\ now = 0
    /\ started_ids = {}

\* no concurrent caller, no level-up, no team combat and no reward calculation
OthersIdle ==
    /\ threads = <<>>
    /\ detached = <<>>
    /\ character = "none"
    /\ team = "none"
    /\ quest = "none"
    /\ bestiary = "none"
    /\ passed_in = "none"

\* player_attack without the early return on victory: the turn is always handed over
player_attack_no_return(variance, crit) ==
    LET base_damage  == calculate_player_damage(player, variance, crit)
        damage_dealt == Max(1, base_damage - enemy.defense)
        hp           == ApplyDamage(enemy.current_hp, damage_dealt)
    IN  /\ enemy' = [enemy EXCEPT !.current_hp = hp]
        /\ IF hp <= 0
           THEN /\ status' = "victory"
                /\ log' = log \o <<"attack", "enemy_defeated">>
           ELSE /\ status' = status
                /\ log' = Append(log, "attack")
        /\ turn' = "enemy"
        /\ UNCHANGED <<player, round, player_defending>>
        /\ last' = Call("player_attack", "none", "none", "none")

player_attack(variance, crit) ==
    LET base_damage  == calculate_player_damage(player, variance, crit)
        damage_dealt == Max(1, base_damage - enemy.defense)
        hp           == ApplyDamage(enemy.current_hp, damage_dealt)
    IN  /\ enemy' = [enemy EXCEPT !.current_hp = hp]
        /\ IF hp <= 0
           THEN /\ status' = "victory"
                /\ log' = log \o <<"attack", "enemy_defeated">>
                /\ turn' = turn
           ELSE /\ status' = status
                /\ log' = Append(log, "attack")
                /\ turn' = "enemy"
        /\ UNCHANGED <<player, round, player_defending>>
        /\ last' = Call("player_attack", "none", "none", "none")

\* player_defend without the hand-over of the turn
player_defend_keeps_turn(heal_amount) ==
    /\ player' = [player EXCEPT
                    !.current_hp = ApplyHeal(player.current_hp, player.max_hp, heal_amount)]
    /\ log' = Append(log, "defend")
    /\ player_defending' = TRUE
    /\ UNCHANGED <<enemy, round, status, turn>>
    /\ last' = Call("player_defend", "none", "none", "none")

player_defend(heal_amount) ==
    /\ player' = [player EXCEPT
                    !.current_hp = ApplyHeal(player.current_hp, player.max_hp, heal_amount)]
    /\ log' = Append(log, "defend")
    /\ player_defending' = TRUE
    /\ turn' = "enemy"
    /\ UNCHANGED <<enemy, round, status>>
    /\ last' = Call("player_defend", "none", "none", "none")

\* the 'attack' branch of enemy_turn
enemy_attack(variance) ==
    LET raw          == calculate_enemy_damage(enemy, variance)
        damage       == IF player_defending THEN Max(1, raw \div 2) ELSE raw
        final_damage == Max(1, damage - player.defense)
        hp           == ApplyDamage(player.current_hp, final_damage)
        reduced      == IF player_defending THEN <<"defense_reduces">> ELSE <<>>
    IN  /\ player_defending' = FALSE
        /\ player' = [player EXCEPT !.current_hp = hp]
        /\ enemy' = enemy
        /\ IF hp <= 0
           THEN /\ status' = "defeat"
                /\ log' = log \o reduced \o <<"enemy_attack", "player_defeated">>
                /\ UNCHANGED <<turn, round>>
           ELSE /\ status' = status
                /\ log' = log \o reduced \o <<"enemy_attack">>
                /\ turn' = "player"
                /\ round' = round + 1

RECURSIVE HitsDamage(_, _, _)
\* the loop over range(hits): player HP after the hits
HitsDamage(hp, damage, hits) ==
    IF hits = 0 THEN hp ELSE HitsDamage(ApplyDamage(hp, damage), damage, hits - 1)

\* _execute_enemy_special_ability followed by the end of enemy_turn
enemy_special(ability, variance) ==
    LET effect == ability_effects(ability)
        special_damage == TruncMul(calculate_enemy_damage(enemy, variance), effect.mult)
        damage == Max(1, special_damage - player.defense)
    IN  /\ IF effect.mult # 0
           THEN /\ player' = [player EXCEPT
                                !.current_hp = HitsDamage(player.current_hp, damage, effect.hits)]
                /\ enemy' = enemy
                /\ log' = log \o <<"ability", "special_damage">>
           ELSE IF effect.effect = "stun"
           THEN /\ log' = log \o <<"ability", "stunned">>
                /\ UNCHANGED <<player, enemy>>
           ELSE IF effect.effect = "buff"
           THEN /\ enemy' = [enemy EXCEPT !.attack = TruncMul(enemy.attack, 11)]
                /\ log' = log \o <<"ability", "buffed">>
                /\ player' = player
           ELSE IF effect.effect = "poison"
           THEN /\ player' = [player EXCEPT !.current_hp = ApplyDamage(player.current_hp, 5)]
                /\ log' = log \o <<"ability", "poison">>
                /\ enemy' = enemy
           ELSE /\ log' = Append(log, "ability")
                /\ UNCHANGED <<player, enemy>>
        /\ turn' = "player"
        /\ round' = round + 1
        /\ UNCHANGED <<status, player_defending>>

enemy_turn(r1, r2, variance, ability) ==
    LET action == determine_enemy_action(enemy, r1, r2)
    IN  /\ IF action = "attack"
           THEN enemy_attack(variance)
           ELSE enemy_special(ability, variance)
        /\ last' = Call("enemy_turn", action,
                        IF action = "special" THEN ability ELSE "none", "none")

\* random.choice(enemy['special_abilities']); the draw is unused when the list is empty
AbilityChoices(e) ==
    IF e.special_abilities = <<>> THEN {"none"}
    ELSE {e.special_abilities[i] : i \in 1..Len(e.special_abilities)}

PlayerAttack ==
    /\ Len(log) < MaxLog
    /\ \E variance \in -3..3, crit \in BOOLEAN :
          /\ crit => CritPossible(player)
          /\ player_attack(variance, crit)
    /\ UNCHANGED <<sessionVars, otherVars>>

PlayerDefend ==
    /\ Len(log) < MaxLog
    /\ \E heal_amount \in 5..15 : player_defend(heal_amount)
    /\ UNCHANGED <<sessionVars, otherVars>>

EnemyTurn ==
    /\ Len(log) < MaxLog
    /\ \E r1 \in BOOLEAN, r2 \in BOOLEAN, variance \in -2..2,
          ability \in AbilityChoices(enemy) :
          enemy_turn(r1, r2, variance, ability)
    /\ UNCHANGED <<sessionVars, otherVars>>

CombatNext == PlayerAttack \/ PlayerDefend \/ EnemyTurn

\* a combat starts; the session manager is left untouched
CombatStart == CombatInit /\ SessionIdle /\ OthersIdle

CombatSpec == CombatStart /\ [][CombatNext]_vars

(***************************************************************************)
(* The records handed to initialize_combat                                 *)
(***************************************************************************)

\* a combat whose arguments are followed takes calls while the log has
\* fewer than MaxCopyLog entries
MaxCopyLog == 4

\* initialize_combat keeping the records it is given: every write of the
\* combat reaches them
sharing_none(original, copy) == copy

\* what a record handed to initialize_combat has become, given what its
\* dict.copy() has become: the copy is shallow, so the top-level fields
\* (current_hp, max_hp, attack) are the record's own, and the nested
\* objects (the player's 'stats', the enemy's 'special_abilities') are the
\* copy's
sharing(original, copy) ==
    [k \in DOMAIN original |->
        IF k \in {"strength", "agility", "defense", "special_abilities"}
        THEN copy[k]
        ELSE original[k]]

\* the arguments after a call that leaves the combat with player' and enemy'
PassedInAfter ==
    passed_in' = [player |-> sharing(passed_in.player, player'),
                  enemy  |-> sharing(passed_in.enemy, enemy')]

copyFrame == <<sessionVars, threads, detached, character, team, quest, bestiary>>

CopyPlayerAttack ==
    /\ Len(log) < MaxCopyLog
    /\ \E variance \in -3..3, crit \in BOOLEAN :
          /\ crit => CritPossible(player)
          /\ player_attack(variance, crit)
    /\ PassedInAfter
    /\ UNCHANGED copyFrame

CopyPlayerDefend ==
    /\ Len(log) < MaxCopyLog
    /\ \E heal_amount \in 5..15 : player_defend(heal_amount)
    /\ PassedInAfter
    /\ UNCHANGED copyFrame

CopyEnemyTurn ==
    /\ Len(log) < MaxCopyLog
    /\ \E r1 \in BOOLEAN, r2 \in BOOLEAN, variance \in -2..2,
          ability \in AbilityChoices(enemy) :
          enemy_turn(r1, r2, variance, ability)
    /\ PassedInAfter
    /\ UNCHANGED copyFrame

CopyNext == CopyPlayerAttack \/ CopyPlayerDefend \/ CopyEnemyTurn

\* initialize_combat(player, enemy): the combat holds copies of the records
CopyInit ==
    /\ \E p \in PlayerInputs, e \in EnemyInputs :
          /\ player = p
          /\ enemy = e
          /\ passed_in = [player |-> p, enemy |-> e]
    /\ turn = "player"
    /\ round = 1
    /\ status = "ongoing"
    /\ log = <<"begin">>
    /\ player_defending = FALSE
    /\ last = Call("initialize_combat", "none", "none", "none")
    /\ SessionIdle
    /\ threads = <<>>
    /\ detached = <<>>
    /\ character = "none"
    /\ team = "none"
    /\ quest = "none"
    /\ bestiary = "none"

CopySpec == CopyInit /\ [][CopyNext]_vars

(***************************************************************************)
(* A combat in which the player always attacks                             *)
(***************************************************************************)

\* the enemy of such a combat starts with 1 to MaxDuel HP, and calls are
\* made while round is at most MaxDuel
MaxDuel == 3

DuelEnemies ==
    {[e EXCEPT !.current_hp = hp] : e \in EnemyInputs, hp \in 1..MaxDuel}

duelFrame == <<sessionVars, otherVars>>

\* the player's turn of an ongoing combat: the player attacks
DuelPlayerAttack ==
    /\ status = "ongoing"
    /\ turn = "player"
    /\ round <= MaxDuel
    /\ \E variance \in -3..3, crit \in BOOLEAN :
          /\ crit => CritPossible(player)
          /\ player_attack(variance, crit)
    /\ UNCHANGED duelFrame

\* the enemy's turn of an ongoing combat
DuelEnemyTurn ==
    /\ status = "ongoing"
    /\ turn = "enemy"
    /\ round <= MaxDuel
    /\ \E r1 \in BOOLEAN, r2 \in BOOLEAN, variance \in -2..2,
          ability \in AbilityChoices(enemy) :
          enemy_turn(r1, r2, variance, ability)
    /\ UNCHANGED duelFrame

DuelNext == DuelPlayerAttack \/ DuelEnemyTurn

DuelInit ==
    /\ \E p \in PlayerInputs, e \in DuelEnemies :
          /\ player = p
          /\ enemy = e
    /\ turn = "player"
    /\ round = 1
    /\ status = "ongoing"
    /\ log = <<"begin">>
    /\ player_defending = FALSE
    /\ last = Call("initialize_combat", "none", "none", "none")
    /\ SessionIdle
    /\ OthersIdle

\* the turn that is due is always taken
DuelSpec == DuelInit /\ [][DuelNext]_vars /\ WF_vars(DuelNext)

(***************************************************************************)
(* Multiplayer session manager                                             *)
(***************************************************************************)

\* player names; a player record is identified by its 'name'
Names == {"ann", "bob"}
\* values of str(uuid.uuid4())[:8].upper(); draws may repeat
Ids == {"A1", "B2"}
\* max_players arguments of create_session
MaxPlayersInputs == {1, 2, 3}
\* max_age_hours arguments of cleanup_expired_sessions
MaxAgeInputs == {0, 1}
\* seconds per hour, as in max_age_hours * 3600
SecondsPerHour == 3600

Put(f, k, v) == [x \in DOMAIN f \cup {k} |-> IF x = k THEN v ELSE f[x]]
Del(f, k) == [x \in DOMAIN f \ {k} |-> f[x]]
\* the names in a roster
Roster(session) == {session.players[i] : i \in 1..Len(session.players)}

\* a session created with an empty roster
GameSession_empty(host, max_players, created_at) ==
    [host_player |-> host, players |-> <<>>, max_players |-> max_players,
     status |-> "waiting", created_at |-> created_at]

GameSession(host, max_players, created_at) ==
    [host_player |-> host, players |-> <<host>>, max_players |-> max_players,
     status |-> "waiting", created_at |-> created_at]

\* session_id is the uuid draw
create_session(host, max_players, session_id) ==
    /\ active_sessions' = Put(active_sessions, session_id,
                              GameSession(host, max_players, now))
    /\ player_sessions' = Put(player_sessions, host, session_id)
    /\ UNCHANGED <<now, started_ids>>
    /\ last' = [op |-> "create_session", arg |-> session_id, who |-> host,
                ret |-> session_id, max_players |-> max_players]

\* the capacity check off by one
SessionOverFull(session) == Len(session.players) > session.max_players

\* len(session.players) >= session.max_players
SessionFull(session) == Len(session.players) >= session.max_players

\* the status check left out
StatusIgnored(session) == FALSE

\* session.status != 'waiting'
NotWaiting(session) == session.status # "waiting"

\* player['name'] in self.player_sessions
AlreadyInSession(name) == name \in DOMAIN player_sessions

\* join_session rejecting only a player who is mapped to a different session
join_session_rejoin(session_id, name) ==
    IF \/ session_id \notin DOMAIN active_sessions
       \/ SessionFull(active_sessions[session_id])
       \/ NotWaiting(active_sessions[session_id])
       \/ (AlreadyInSession(name) /\ player_sessions[name] # session_id)
    THEN /\ UNCHANGED sessionVars
         /\ last' = Call("join_session", session_id, name, "False")
    ELSE /\ active_sessions' =
               [active_sessions EXCEPT ![session_id].players = Append(@, name)]
         /\ player_sessions' = Put(player_sessions, name, session_id)
         /\ UNCHANGED <<now, started_ids>>
         /\ last' = Call("join_session", session_id, name, "True")

join_session(session_id, name) ==
    IF \/ session_id \notin DOMAIN active_sessions
       \/ SessionFull(active_sessions[session_id])
       \/ NotWaiting(active_sessions[session_id])
       \/ AlreadyInSession(name)
    THEN /\ UNCHANGED sessionVars
         /\ last' = Call("join_session", session_id, name, "False")
    ELSE /\ active_sessions' =
               [active_sessions EXCEPT ![session_id].players = Append(@, name)]
         /\ player_sessions' = Put(player_sessions, name, session_id)
         /\ UNCHANGED <<now, started_ids>>
         /\ last' = Call("join_session", session_id, name, "True")

\* leave_session handing the host role to the last remaining roster entry
leave_session_last_host(name) ==
    IF name \notin DOMAIN player_sessions
    THEN /\ UNCHANGED sessionVars
         /\ last' = Call("leave_session", "none", name, "False")
    ELSE LET session_id == player_sessions[name] IN
         IF session_id \notin DOMAIN active_sessions
         THEN /\ UNCHANGED sessionVars
              /\ last' = Call("leave_session", session_id, name, "KeyError")
         ELSE LET session   == active_sessions[session_id]
                  remaining == SelectSeq(session.players, LAMBDA p : p # name)
                  host      == IF session.host_player = name /\ remaining # <<>>
                               THEN remaining[Len(remaining)]
                               ELSE session.host_player
              IN  /\ player_sessions' = Del(player_sessions, name)
                  /\ active_sessions' =
                        IF remaining = <<>>
                        THEN Del(active_sessions, session_id)
                        ELSE [active_sessions EXCEPT
                                 ![session_id].players = remaining,
                                 ![session_id].host_player = host]
                  /\ UNCHANGED <<now, started_ids>>
                  /\ last' = Call("leave_session", session_id, name, "True")

leave_session(name) ==
    IF name \notin DOMAIN player_sessions
    THEN /\ UNCHANGED sessionVars
         /\ last' = Call("leave_session", "none", name, "False")
    ELSE LET session_id == player_sessions[name] IN
         IF session_id \notin DOMAIN active_sessions
         THEN \* self.active_sessions[session_id] raises before anything is changed
              /\ UNCHANGED sessionVars
              /\ last' = Call("leave_session", session_id, name, "KeyError")
         ELSE LET session   == active_sessions[session_id]
                  remaining == SelectSeq(session.players, LAMBDA p : p # name)
                  host      == IF session.host_player = name /\ remaining # <<>>
                               THEN remaining[1]
                               ELSE session.host_player
              IN  /\ player_sessions' = Del(player_sessions, name)
                  /\ active_sessions' =
                        IF remaining = <<>>
                        THEN Del(active_sessions, session_id)
                        ELSE [active_sessions EXCEPT
                                 ![session_id].players = remaining,
                                 ![session_id].host_player = host]
                  /\ UNCHANGED <<now, started_ids>>
                  /\ last' = Call("leave_session", session_id, name, "True")

\* start_session without the check that two players are present
start_session_alone(session_id) ==
    IF \/ session_id \notin DOMAIN active_sessions
       \/ active_sessions[session_id].status # "waiting"
    THEN /\ UNCHANGED sessionVars
         /\ last' = Call("start_session", session_id, "none", "False")
    ELSE /\ active_sessions' = [active_sessions EXCEPT ![session_id].status = "in_progress"]
         /\ UNCHANGED <<player_sessions, now>>
         /\ started_ids' = started_ids \cup {session_id}
         /\ last' = Call("start_session", session_id, "none", "True")

start_session(session_id) ==
    IF \/ session_id \notin DOMAIN active_sessions
       \/ active_sessions[session_id].status # "waiting"
       \/ Len(active_sessions[session_id].players) < 2
    THEN /\ UNCHANGED sessionVars
         /\ last' = Call("start_session", session_id, "none", "False")
    ELSE /\ active_sessions' = [active_sessions EXCEPT ![session_id].status = "in_progress"]
         /\ UNCHANGED <<player_sessions, now>>
         /\ started_ids' = started_ids \cup {session_id}
         /\ last' = Call("start_session", session_id, "none", "True")

\* self.active_sessions.get(session_id)
get_session(session_id) ==
    IF session_id \in DOMAIN active_sessions THEN active_sessions[session_id] ELSE "None"

\* (current_time - session.created_at) > (max_age_hours * 3600)
Expired(session, max_age_hours) ==
    (now - session.created_at) > (max_age_hours * SecondsPerHour)

cleanup_expired_sessions(max_age_hours) ==
    LET expired_sessions ==
            {id \in DOMAIN active_sessions : Expired(active_sessions[id], max_age_hours)}
        unmapped == UNION {Roster(active_sessions[id]) : id \in expired_sessions}
    IN  /\ player_sessions' = [n \in DOMAIN player_sessions \ unmapped |-> player_sessions[n]]
        /\ active_sessions' = [id \in DOMAIN active_sessions \ expired_sessions |->
                                  active_sessions[id]]
        /\ UNCHANGED <<now, started_ids>>
        /\ last' = [op |-> "cleanup_expired_sessions", arg |-> "none", who |-> "none",
                    ret |-> ToString(Cardinality(expired_sessions)),
                    max_age_hours |-> max_age_hours]

SessionInit ==
    /\ SessionIdle
    /\ last = Call("init", "none", "none", "none")

\* the combat variables are not used by the session manager
CombatIdle ==
    /\ player = [current_hp |-> 1, max_hp |-> 1, strength |-> 0, agility |-> 0, defense |-> 0]
    /\ enemy = [current_hp |-> 1, max_hp |-> 1, attack |-> 0, defense |-> 0,
                special_abilities |-> <<>>]
    /\ turn = "player"
    /\ round = 1
    /\ status = "ongoing"
    /\ log = <<>>
    /\ player_defending = FALSE

CreateSession ==
    /\ \E host \in Names, max_players \in MaxPlayersInputs, session_id \in Ids :
          create_session(host, max_players, session_id)
    /\ UNCHANGED <<combatVars, otherVars>>

JoinSession ==
    /\ \E session_id \in Ids, name \in Names : join_session(session_id, name)
    /\ UNCHANGED <<combatVars, otherVars>>

LeaveSession ==
    /\ \E name \in Names : leave_session(name)
    /\ UNCHANGED <<combatVars, otherVars>>

StartSession ==
    /\ \E session_id \in Ids : start_session(session_id)
    /\ UNCHANGED <<combatVars, otherVars>>

CleanupExpiredSessions ==
    /\ \E max_age_hours \in MaxAgeInputs : cleanup_expired_sessions(max_age_hours)
    /\ UNCHANGED <<combatVars, otherVars>>

\* an hour passes between two calls
Tick ==
    /\ now < MaxTime * SecondsPerHour
    /\ now' = now + SecondsPerHour
    /\ UNCHANGED <<active_sessions, player_sessions, started_ids>>
    /\ last' = Call("tick", "none", "none", "none")
    /\ UNCHANGED <<combatVars, otherVars>>

SessionNext ==
    \/ CreateSession
    \/ JoinSession
    \/ LeaveSession
    \/ StartSession
    \/ CleanupExpiredSessions
    \/ Tick

\* an empty session manager; no combat is running
SessionStart == SessionInit /\ CombatIdle /\ OthersIdle

SessionSpec == SessionStart /\ [][SessionNext]_vars

(***************************************************************************)
(* A lobby of three players: the same operations, without the clock        *)
(***************************************************************************)

LobbyNames == {"ann", "bob", "cy"}
LobbyMaxPlayers == {2, 3}
\* the uuid draws of the lobby: every create_session draws the same id
LobbyIds == {"A1"}

LobbyCreate ==
    /\ \E host \in LobbyNames, max_players \in LobbyMaxPlayers, session_id \in LobbyIds :
          create_session(host, max_players, session_id)
    /\ UNCHANGED <<combatVars, otherVars>>

LobbyJoin ==
    /\ \E session_id \in LobbyIds, name \in LobbyNames : join_session(session_id, name)
    /\ UNCHANGED <<combatVars, otherVars>>

LobbyLeave ==
    /\ \E name \in LobbyNames : leave_session(name)
    /\ UNCHANGED <<combatVars, otherVars>>

LobbyStartSession ==
    /\ \E session_id \in LobbyIds : start_session(session_id)
    /\ UNCHANGED <<combatVars, otherVars>>

LobbyNext ==
    \/ LobbyCreate
    \/ LobbyJoin
    \/ LobbyLeave
    \/ LobbyStartSession

LobbySpec == SessionStart /\ [][LobbyNext]_vars

(***************************************************************************)
(* Concurrent callers of one MultiplayerSystem                             *)
(*                                                                         *)
(* app.py builds the MultiplayerSystem once (st.cache_resource) and every  *)
(* browser session calls it from its own script thread; no method takes a  *)
(* lock.  A call is split at its reads and writes of the shared            *)
(* dictionaries and of the GameSession object; each piece is one step.     *)
(***************************************************************************)

RaceThreads == {"t1", "t2"}
\* the session the callers act on
RaceId == "A1"
\* rosters of the session when the calls begin; ann is the host
RaceRosters == {<<"ann">>, <<"ann", "bob">>}
RaceMaxPlayers == {2, 3}
\* players who are in no session when the calls begin
Joiners == {"cy", "dan"}

ThreadCall(op, sid, name) ==
    [op |-> op, sid |-> sid, name |-> name, pc |-> "begin", ret |-> "none"]

RaceCalls ==
    {ThreadCall("join_session", RaceId, n) : n \in Joiners}
      \cup {ThreadCall("leave_session", "none", n) : n \in {"ann", "bob"}}
      \cup {ThreadCall("start_session", RaceId, "none")}

\* the object a local variable 'session' refers to
Obj(sid) == IF sid \in DOMAIN active_sessions THEN active_sessions[sid] ELSE detached[sid]

\* an assignment to a field of that object
SetObj(sid, session) ==
    IF sid \in DOMAIN active_sessions
    THEN /\ active_sessions' = [active_sessions EXCEPT ![sid] = session]
         /\ UNCHANGED detached
    ELSE /\ detached' = [detached EXCEPT ![sid] = session]
         /\ UNCHANGED active_sessions

Goto(t, pc) ==
    /\ threads' = [threads EXCEPT ![t].pc = pc]
    /\ last' = Call(threads[t].op, threads[t].sid, threads[t].name, "running")

Return(t, ret) ==
    /\ threads' = [threads EXCEPT ![t].pc = "done", ![t].ret = ret]
    /\ last' = Call(threads[t].op, threads[t].sid, threads[t].name, ret)

At(t, op, pc) == threads[t].op = op /\ threads[t].pc = pc

\* join_session, lines 91-94
join_lookup(t) ==
    /\ At(t, "join_session", "begin")
    /\ IF threads[t].sid \notin DOMAIN active_sessions
       THEN Return(t, "False")
       ELSE Goto(t, "check")
    /\ UNCHANGED <<sessionVars, detached>>

\* join_session, lines 97-105
join_check(t) ==
    /\ At(t, "join_session", "check")
    /\ IF \/ SessionFull(Obj(threads[t].sid))
          \/ NotWaiting(Obj(threads[t].sid))
          \/ AlreadyInSession(threads[t].name)
       THEN Return(t, "False")
       ELSE Goto(t, "append")
    /\ UNCHANGED <<sessionVars, detached>>

\* join_session, line 108
join_append(t) ==
    /\ At(t, "join_session", "append")
    /\ SetObj(threads[t].sid,
              [Obj(threads[t].sid) EXCEPT !.players = Append(@, threads[t].name)])
    /\ Goto(t, "index")
    /\ UNCHANGED <<player_sessions, now, started_ids>>

\* join_session, lines 109-111
join_index(t) ==
    /\ At(t, "join_session", "index")
    /\ player_sessions' = Put(player_sessions, threads[t].name, threads[t].sid)
    /\ Return(t, "True")
    /\ UNCHANGED <<active_sessions, detached, now, started_ids>>

\* leave_session, lines 115-119
leave_lookup(t) ==
    /\ At(t, "leave_session", "begin")
    /\ IF threads[t].name \notin DOMAIN player_sessions
       THEN Return(t, "False")
       ELSE LET session_id == player_sessions[threads[t].name] IN
            IF session_id \notin DOMAIN active_sessions
            THEN Return(t, "KeyError")
            ELSE /\ threads' = [threads EXCEPT ![t].sid = session_id, ![t].pc = "remove"]
                 /\ last' = Call("leave_session", session_id, threads[t].name, "running")
    /\ UNCHANGED <<sessionVars, detached>>

\* leave_session, lines 122-123
leave_remove(t) ==
    /\ At(t, "leave_session", "remove")
    /\ SetObj(threads[t].sid,
              [Obj(threads[t].sid) EXCEPT
                  !.players = SelectSeq(@, LAMBDA p : p # threads[t].name)])
    /\ player_sessions' = Del(player_sessions, threads[t].name)
    /\ Goto(t, "close")
    /\ UNCHANGED <<now, started_ids>>

\* leave_session, lines 126-138
leave_close(t) ==
    /\ At(t, "leave_session", "close")
    /\ LET sid     == threads[t].sid
           session == Obj(sid)
       IN  IF session.players # <<>>
           THEN /\ SetObj(sid, [session EXCEPT !.host_player =
                                   IF @ = threads[t].name THEN session.players[1] ELSE @])
                /\ Return(t, "True")
           ELSE IF sid \in DOMAIN active_sessions
                THEN /\ active_sessions' = Del(active_sessions, sid)
                     /\ detached' = Put(detached, sid, session)
                     /\ Return(t, "True")
                ELSE \* del self.active_sessions[session_id] on a key already deleted
                     /\ UNCHANGED <<active_sessions, detached>>
                     /\ Return(t, "KeyError")
    /\ UNCHANGED <<player_sessions, now, started_ids>>

\* start_session, lines 142-151
start_check(t) ==
    /\ At(t, "start_session", "begin")
    /\ IF \/ threads[t].sid \notin DOMAIN active_sessions
          \/ active_sessions[threads[t].sid].status # "waiting"
          \/ Len(active_sessions[threads[t].sid].players) < 2
       THEN Return(t, "False")
       ELSE Goto(t, "set")
    /\ UNCHANGED <<sessionVars, detached>>

\* start_session, lines 153-154
start_set(t) ==
    /\ At(t, "start_session", "set")
    /\ SetObj(threads[t].sid, [Obj(threads[t].sid) EXCEPT !.status = "in_progress"])
    /\ started_ids' = started_ids \cup {threads[t].sid}
    /\ Return(t, "True")
    /\ UNCHANGED <<player_sessions, now>>

\* what the session manager's callers do not touch
raceFrame == <<combatVars, character, team, quest, bestiary, passed_in>>

JoinLookup  == (\E t \in RaceThreads : join_lookup(t))  /\ UNCHANGED raceFrame
JoinCheck   == (\E t \in RaceThreads : join_check(t))   /\ UNCHANGED raceFrame
JoinAppend  == (\E t \in RaceThreads : join_append(t))  /\ UNCHANGED raceFrame
JoinIndex   == (\E t \in RaceThreads : join_index(t))   /\ UNCHANGED raceFrame
LeaveLookup == (\E t \in RaceThreads : leave_lookup(t)) /\ UNCHANGED raceFrame
LeaveRemove == (\E t \in RaceThreads : leave_remove(t)) /\ UNCHANGED raceFrame
LeaveClose  == (\E t \in RaceThreads : leave_close(t))  /\ UNCHANGED raceFrame
StartCheck  == (\E t \in RaceThreads : start_check(t))  /\ UNCHANGED raceFrame
StartSet    == (\E t \in RaceThreads : start_set(t))    /\ UNCHANGED raceFrame

RaceNext ==
    \/ JoinLookup
    \/ JoinCheck
    \/ JoinAppend
    \/ JoinIndex
    \/ LeaveLookup
    \/ LeaveRemove
    \/ LeaveClose
    \/ StartCheck
    \/ StartSet

\* a waiting session created by ann, which bob may have joined, and two
\* different calls about to run
RaceInit ==
    /\ \E roster \in RaceRosters, max_players \in RaceMaxPlayers :
          /\ active_sessions =
                [id \in {RaceId} |->
                    [GameSession("ann", max_players, 0) EXCEPT !.players = roster]]
          /\ player_sessions = [n \in {roster[i] : i \in 1..Len(roster)} |-> RaceId]
    /\ \E c1, c2 \in RaceCalls :
          /\ c1 # c2
          /\ threads = [t \in RaceThreads |-> IF t = "t1" THEN c1 ELSE c2]
    /\ now = 0
    /\ started_ids = {}
    /\ detached = <<>>
    /\ character = "none"
    /\ team = "none"
    /\ quest = "none"
    /\ bestiary = "none"
    /\ passed_in = "none"
    /\ last = Call("init", "none", "none", "none")
    /\ CombatIdle

RaceSpec == RaceInit /\ [][RaceNext]_vars

(***************************************************************************)
(* Character progression (character_system.py)                             *)
(***************************************************************************)

\* level_up is applied while the level is below MaxLevel
MaxLevel == 2

Stats(strength, agility, intelligence, defense, magic_power, max_hp) ==
    [strength |-> strength, agility |-> agility, intelligence |-> intelligence,
     defense |-> defense, magic_power |-> magic_power, max_hp |-> max_hp]

Classes == {"swordsman", "sniper", "magician", "gunman", "archer",
            "warrior", "hunter", "assassin", "hitman"}

\* character_classes[class]['base_stats']
base_stats(class) ==
    CASE class = "swordsman" -> Stats(18, 12, 10, 16, 8, 120)
      [] class = "sniper"    -> Stats(12, 20, 14, 10, 8, 90)
      [] class = "magician"  -> Stats(8, 10, 20, 8, 18, 80)
      [] class = "gunman"    -> Stats(14, 16, 12, 12, 6, 100)
      [] class = "archer"    -> Stats(12, 18, 12, 10, 10, 95)
      [] class = "warrior"   -> Stats(16, 12, 10, 18, 8, 130)
      [] class = "hunter"    -> Stats(14, 16, 14, 12, 8, 110)
      [] class = "assassin"  -> Stats(12, 20, 12, 8, 10, 85)
      [] class = "hitman"    -> Stats(14, 16, 16, 10, 6, 95)

\* the stats _calculate_stat_growth draws a growth for (max_hp is skipped)
GrownStats == {"strength", "agility", "intelligence", "defense", "magic_power"}

\* the values random.randint can return for a stat of that base value
GrowthDraws(base_value) ==
    IF base_value >= 16 THEN 2..4
    ELSE IF base_value >= 12 THEN 1..3
    ELSE 1..2

\* the dictionaries _calculate_stat_growth can return
calculate_stat_growth(class) ==
    {[strength |-> s, agility |-> a, intelligence |-> i, defense |-> d, magic_power |-> m] :
        s \in GrowthDraws(base_stats(class).strength),
        a \in GrowthDraws(base_stats(class).agility),
        i \in GrowthDraws(base_stats(class).intelligence),
        d \in GrowthDraws(base_stats(class).defense),
        m \in GrowthDraws(base_stats(class).magic_power)}

\* random.randint(8, 15)
HpIncreases == 8..15

create_character(class) ==
    [class |-> class, level |-> 1, experience |-> 0, experience_to_next |-> 100,
     stats |-> base_stats(class),
     current_hp |-> base_stats(class).max_hp, max_hp |-> base_stats(class).max_hp]

\* level_up leaving the top-level max_hp as it was
level_up_stale_max_hp(c, stat_growth, hp_increase) ==
    LET stats == [stat \in DOMAIN c.stats |->
                    IF stat \in GrownStats
                    THEN c.stats[stat] + stat_growth[stat]
                    ELSE c.stats[stat] + hp_increase]
    IN  [c EXCEPT !.level = c.level + 1,
                  !.experience = 0,
                  !.experience_to_next = (c.level + 1) * 100,
                  !.stats = stats,
                  !.current_hp = c.max_hp]

level_up(c, stat_growth, hp_increase) ==
    LET stats == [stat \in DOMAIN c.stats |->
                    IF stat \in GrownStats
                    THEN c.stats[stat] + stat_growth[stat]
                    ELSE c.stats[stat] + hp_increase]
    IN  [c EXCEPT !.level = c.level + 1,
                  !.experience = 0,
                  !.experience_to_next = (c.level + 1) * 100,
                  !.stats = stats,
                  !.max_hp = stats.max_hp,
                  !.current_hp = stats.max_hp]

\* what character progression does not touch
levelFrame == <<combatVars, sessionVars, threads, detached, team, quest, bestiary, passed_in>>

LevelUp ==
    /\ character.level < MaxLevel
    /\ \E stat_growth \in calculate_stat_growth(character.class),
          hp_increase \in HpIncreases :
          character' = level_up(character, stat_growth, hp_increase)
    /\ last' = Call("level_up", character.class, "none", "none")
    /\ UNCHANGED levelFrame

LevelNext == LevelUp

\* a new character of any class, at full health or at 1 HP as a lost
\* combat leaves its copy
LevelInit ==
    /\ \E class \in Classes :
          \E current_hp \in {1, base_stats(class).max_hp} :
             character = [create_character(class) EXCEPT !.current_hp = current_hp]
    /\ last = Call("create_character", "none", "none", "none")
    /\ CombatIdle
    /\ SessionIdle
    /\ threads = <<>>
    /\ detached = <<>>
    /\ team = "none"
    /\ quest = "none"
    /\ bestiary = "none"
    /\ passed_in = "none"

LevelSpec == LevelInit /\ [][LevelNext]_vars

(***************************************************************************)
(* Team combat turn order (multiplayer_system.py)                          *)
(***************************************************************************)

\* rosters of 1 to MaxTeam entries are handed to create_team_combat_state
MaxTeam == 3

TeamNames == {"ann", "bob", "cy"}
\* values of player['stats']['agility']
TeamAgilities == {10, 15, 20}

\* the roster entries: player records, of which the turn order reads these fields
TeamPlayers == [name : TeamNames, agility : TeamAgilities]

\* the rosters a session can hold; an entry may repeat a name
TeamRosters == UNION {[1..n -> TeamPlayers] : n \in 1..MaxTeam}

\* where an unstable descending sort would put p: before its equals
InsertPointUnstable(sorted, p) ==
    Cardinality({i \in 1..Len(sorted) : sorted[i].agility > p.agility})

\* where sorted(..., reverse=True) puts p among the entries before it in the
\* list: after every entry of greater or equal key (the sort is stable)
InsertPoint(sorted, p) ==
    Cardinality({i \in 1..Len(sorted) : sorted[i].agility >= p.agility})

\* sorted(players, key=lambda p: p['stats']['agility'], reverse=True)
RECURSIVE sorted_players(_)
sorted_players(players) ==
    IF players = <<>> THEN <<>>
    ELSE LET before == sorted_players(SubSeq(players, 1, Len(players) - 1))
             p      == players[Len(players)]
             k      == InsertPoint(before, p)
         IN  SubSeq(before, 1, k) \o <<p>> \o SubSeq(before, k + 1, Len(before))

\* the loop appending each name and then 'enemy'
RECURSIVE full_turn_order(_)
full_turn_order(sorted) ==
    IF sorted = <<>> THEN <<>>
    ELSE <<sorted[1].name, "enemy">> \o full_turn_order(Tail(sorted))

determine_turn_order(players) == full_turn_order(sorted_players(players))

\* what team combat does not touch
teamFrame == <<combatVars, sessionVars, threads, detached, character, quest, bestiary, passed_in>>

CreateTeamCombatState ==
    /\ team.turn_order = <<>>
    /\ team' = [team EXCEPT !.turn_order = determine_turn_order(team.players),
                            !.current_turn = 0]
    /\ last' = Call("create_team_combat_state", "none", "none", "none")
    /\ UNCHANGED teamFrame

TeamNext == CreateTeamCombatState

\* a session roster, before its team combat is created
TeamInit ==
    /\ \E players \in TeamRosters :
          team = [players |-> players, turn_order |-> <<>>, current_turn |-> 0]
    /\ last = Call("init", "none", "none", "none")
    /\ CombatIdle
    /\ SessionIdle
    /\ threads = <<>>
    /\ detached = <<>>
    /\ character = "none"
    /\ quest = "none"
    /\ bestiary = "none"
    /\ passed_in = "none"

TeamSpec == TeamInit /\ [][TeamNext]_vars

(***************************************************************************)
(* Solo quest rewards (quest_system.py)                                    *)
(***************************************************************************)

\* quests are generated for players of level 1 to MaxQuestLevel
MaxQuestLevel == 14

Creature(name, difficulty, hp, attack, defense, special_abilities) ==
    [name |-> name, difficulty |-> difficulty, hp |-> hp, attack |-> attack,
     defense |-> defense, special_abilities |-> special_abilities]

\* the list _initialize_ancient_creatures returns
ancient_creatures ==
    <<Creature("Tyrannosaurus Rex", "legendary", 200, 25, 15,
               <<"Crushing Bite", "Intimidating Roar">>),
      Creature("Woolly Mammoth", "hard", 180, 20, 18, <<"Tusk Charge", "Trumpet Call">>),
      Creature("Saber-tooth Tiger", "medium", 120, 22, 12, <<"Pounce", "Saber Strike">>),
      Creature("Cave Bear", "medium", 140, 18, 16, <<"Claw Swipe", "Bear Hug">>),
      Creature("Giant Ground Sloth", "easy", 100, 15, 14, <<"Heavy Slam", "Thick Hide">>),
      Creature("Terror Bird", "medium", 110, 20, 10, <<"Piercing Beak", "Swift Strike">>),
      Creature("Dire Wolf", "easy", 80, 16, 12, <<"Pack Howl", "Bite and Hold">>),
      Creature("Megalania", "hard", 160, 19, 16, <<"Venomous Bite", "Tail Whip">>)>>

\* (level, value) at which the float product value * (1 + (level - 1) * 0.1)
\* falls just below the integer it equals exactly, so that int() gives one
\* less; complete for levels 1 to 18 and the values of the bestiary
LevelFloatShortfalls ==
    {<<5, 180>>, <<14, 100>>, <<14, 110>>, <<14, 180>>, <<14, 200>>}

\* int(value * level_modifier) with level_modifier = 1 + (level - 1) * 0.1
LevelScaled(value, level) ==
    IF <<level, value>> \in LevelFloatShortfalls
    THEN (value * (10 + (level - 1))) \div 10 - 1
    ELSE (value * (10 + (level - 1))) \div 10

\* template['difficulty_modifier'] * 10 of the four quest templates
TemplateModifiers == {10, 12, 9, 15}

\* difficulty_multipliers[difficulty] * 10
difficulty_multipliers(difficulty) ==
    CASE difficulty = "easy"      -> 8
      [] difficulty = "medium"    -> 10
      [] difficulty = "hard"      -> 13
      [] difficulty = "legendary" -> 16
      [] OTHER                    -> 10

\* the difficulties of the creatures _select_creature_for_player chooses from
SuitableDifficulties(level) ==
    IF level <= 2 THEN {"easy"}
    ELSE IF level <= 5 THEN {"easy", "medium"}
    ELSE IF level <= 8 THEN {"medium", "hard"}
    ELSE {"easy", "medium", "hard", "legendary"}

possible_items == {"Fang", "Hide", "Claw", "Ancient Bone Fragment",
                   "Prehistoric Essence", "Monster Trophy", "Health Potion",
                   "Strength Elixir"}

\* random.sample(possible_items, random.randint(1, 2))
generate_reward_items ==
    {<<a>> : a \in possible_items}
      \cup {pair \in possible_items \X possible_items : pair[1] # pair[2]}

\* rewards['items']: empty unless random.random() < 0.3
ItemDraws == {<<>>} \cup generate_reward_items

\* _calculate_rewards with the amounts rounded to the nearest integer
calculate_rewards_rounded(level, difficulty, difficulty_modifier, items) ==
    LET base_gold  == 50 + (level * 25)
        base_exp   == 40 + (level * 20)
        multiplier == difficulty_multipliers(difficulty) * difficulty_modifier
    IN  [gold       |-> (base_gold * multiplier + 50) \div 100,
         experience |-> (base_exp * multiplier + 50) \div 100,
         items      |-> items]

\* multiplier is the product of the two factors, times 100.  For these
\* factors int(base * multiplier) in Python's floats is the exact product
\* truncated, at every level from 1 to 3000.
calculate_rewards(level, difficulty, difficulty_modifier, items) ==
    LET base_gold  == 50 + (level * 25)
        base_exp   == 40 + (level * 20)
        multiplier == difficulty_multipliers(difficulty) * difficulty_modifier
    IN  [gold       |-> (base_gold * multiplier) \div 100,
         experience |-> (base_exp * multiplier) \div 100,
         items      |-> items]

\* the positions in the catalog of the creatures that suit the level
suitable_creatures(catalog, level) ==
    {i \in 1..Len(catalog) : catalog[i].difficulty \in SuitableDifficulties(level)}

\* a catalog entry once the dict.copy() made from it has become creature:
\* the copy is shallow, so the entry keeps its own hp, attack and defense
\* and shares the special_abilities list with the copy
template_after(template, creature) ==
    [template EXCEPT !.special_abilities = creature.special_abilities]

\* the 'target' of a quest that has not been generated yet
NoCreature ==
    [name |-> "none", difficulty |-> "none", hp |-> 0, attack |-> 0, defense |-> 0,
     max_hp |-> 0, current_hp |-> 0, special_abilities |-> <<>>]

\* the creature _select_creature_for_player returns when random.choice
\* picks template: a copy with hp, attack and defense scaled by the level
select_creature_for_player(template, level) ==
    [name |-> template.name, difficulty |-> template.difficulty,
     hp |-> LevelScaled(template.hp, level),
     attack |-> LevelScaled(template.attack, level),
     defense |-> LevelScaled(template.defense, level),
     max_hp |-> LevelScaled(template.hp, level),
     current_hp |-> LevelScaled(template.hp, level),
     special_abilities |-> template.special_abilities]

\* template['type'] of the template with that difficulty_modifier
template_type(difficulty_modifier) ==
    CASE difficulty_modifier = 10 -> "hunt"
      [] difficulty_modifier = 12 -> "protect"
      [] difficulty_modifier = 9  -> "investigate"
      [] difficulty_modifier = 15 -> "urgent"

\* the random.choice of a quest giver and of a location
QuestGivers == {"Captain Marcus, Royal Guard Captain"}
Locations == {"near the Ancient Forest"}

\* the quest dictionary before the enhancement; a formatted text is the
\* tuple of its format and arguments
base_quest(difficulty_modifier, creature, giver, location, reward) ==
    [title       |-> <<"title_format", template_type(difficulty_modifier),
                       creature.name, location>>,
     description |-> <<"description_format", template_type(difficulty_modifier),
                       creature.name, location>>,
     type        |-> template_type(difficulty_modifier),
     giver       |-> giver,
     target      |-> creature,
     location    |-> location,
     difficulty  |-> creature.difficulty,
     reward      |-> reward]

\* an element of the content the model returned: a [key, value] pair, or
\* anything else (a number, a longer list, ...)
Element(key, pair) == [key |-> key, pair |-> pair]

Content(kind, items) == [kind |-> kind, items |-> items]

\* what the chat completion gives enhance_quest: an exception or text that
\* is not JSON ("error"), a JSON object, a JSON array, a JSON number
EnhancerResponses ==
    {Content("error", <<>>), Content("number", <<>>), Content("object", <<>>)}
      \cup {Content("object", <<Element(k, TRUE)>>) :
               k \in {"backstory", "title", "reward", "target"}}
      \cup {Content("array", <<Element("title", FALSE)>>),
            Content("array", <<Element("title", TRUE)>>),
            Content("array", <<Element("title", TRUE), Element("title", FALSE)>>)}

\* Python's None
None == Content("none", <<>>)

\* enhance_quest: json.loads of the content, None on any exception
enhance_quest(response) ==
    IF response.kind = "error" THEN None ELSE response

\* the value the content carries for a key
EnhancedValue(key) ==
    CASE key = "reward" -> [gold |-> 0, experience |-> 0, items |-> <<>>]
      [] key = "target" -> NoCreature
      [] OTHER          -> <<"text of the model">>

\* dict.update given a dict or an iterable: the elements are stored one by
\* one; an element that is not a pair raises and ends the update
RECURSIVE dict_update(_, _)
dict_update(d, items) ==
    IF items = <<>> \/ ~Head(items).pair
    THEN d
    ELSE dict_update([k \in DOMAIN d \cup {Head(items).key} |->
                        IF k = Head(items).key THEN EnhancedValue(k) ELSE d[k]],
                     Tail(items))

\* lines 167-174: 'if enhanced_quest: quest.update(enhanced_quest)' inside
\* try/except Exception; update on a number raises TypeError at once
merge_enhancement(q, enhanced_quest) ==
    IF enhanced_quest.kind \in {"object", "array"}
    THEN dict_update(q, enhanced_quest.items)
    ELSE q

\* what quest generation does not touch
questFrame == <<combatVars, sessionVars, threads, detached, character, team, passed_in>>

\* generate_quest: template and creature are random choices
GenerateQuest ==
    /\ quest.status = "requested"
    /\ \E difficulty_modifier \in TemplateModifiers,
          choice \in suitable_creatures(bestiary, quest.level),
          giver \in QuestGivers, location \in Locations,
          items \in ItemDraws,
          response \in EnhancerResponses :
          LET creature == select_creature_for_player(bestiary[choice], quest.level)
              reward   == calculate_rewards(quest.level, creature.difficulty,
                                            difficulty_modifier, items)
              q        == base_quest(difficulty_modifier, creature, giver, location,
                                     reward)
          IN  /\ quest' = [status |-> "offered",
                           level |-> quest.level,
                           difficulty |-> creature.difficulty,
                           difficulty_modifier |-> difficulty_modifier,
                           target |-> creature,
                           reward |-> reward,
                           giver |-> giver,
                           location |-> location,
                           enhanced_quest |-> enhance_quest(response),
                           returned |-> merge_enhancement(q, enhance_quest(response))]
              /\ bestiary' = [bestiary EXCEPT ![choice] = template_after(@, creature)]
    /\ last' = Call("generate_quest", "none", "none", "none")
    /\ UNCHANGED questFrame

QuestNext == GenerateQuest

\* a player of some level asks for a quest
QuestInit ==
    /\ \E level \in 1..MaxQuestLevel :
          quest = [status |-> "requested", level |-> level, difficulty |-> "none",
                   difficulty_modifier |-> 0,
                   target |-> NoCreature,
                   reward |-> [gold |-> 0, experience |-> 0, items |-> <<>>],
                   giver |-> "none", location |-> "none",
                   enhanced_quest |-> None,
                   returned |-> <<>>]
    /\ bestiary = ancient_creatures
    /\ passed_in = "none"
    /\ last = Call("init", "none", "none", "none")
    /\ CombatIdle
    /\ SessionIdle
    /\ threads = <<>>
    /\ detached = <<>>
    /\ character = "none"
    /\ team = "none"

QuestSpec == QuestInit /\ [][QuestNext]_vars

(***************************************************************************)
(* Multiplayer quests (multiplayer_system.py)                              *)
(***************************************************************************)

\* a session's roster has 1 to MaxParty players
MaxParty == 4
\* generate_multiplayer_quest is called at most MaxCalls times
MaxCalls == 2

\* the level of the host of a session; the players who joined are of level 1
HostLevels == {1, 4}

\* session.players, as the players' levels, the host first
PartyRosters ==
    {<<host>> \o [i \in 1..(n - 1) |-> 1] : host \in HostLevels, n \in 1..MaxParty}

\* self.multiplayer_quests; difficulty_modifier * 10, rewards_multiplier * 100
multiplayer_quests ==
    <<[type |-> "raid", min_players |-> 2, max_players |-> 4,
       difficulty_modifier |-> 15, rewards_multiplier |-> 130],
      [type |-> "siege", min_players |-> 3, max_players |-> 5,
       difficulty_modifier |-> 20, rewards_multiplier |-> 150],
      [type |-> "rescue", min_players |-> 2, max_players |-> 4,
       difficulty_modifier |-> 13, rewards_multiplier |-> 120],
      [type |-> "defense", min_players |-> 2, max_players |-> 6,
       difficulty_modifier |-> 14, rewards_multiplier |-> 125]>>

\* quest_system.quest_templates, with what template.get() gives for the
\* keys a solo template does not have
quest_templates ==
    {[type |-> template_type(m), min_players |-> 2, max_players |-> 0,
      difficulty_modifier |-> m, rewards_multiplier |-> 100] : m \in TemplateModifiers}

\* the list comprehension with a strict lower bound
suitable_quests_strict(num_players) ==
    {multiplayer_quests[i] : i \in {j \in DOMAIN multiplayer_quests :
        /\ multiplayer_quests[j].min_players < num_players
        /\ num_players <= multiplayer_quests[j].max_players}}

\* the team templates whose range of players contains num_players
suitable_quests(num_players) ==
    {multiplayer_quests[i] : i \in {j \in DOMAIN multiplayer_quests :
        /\ multiplayer_quests[j].min_players <= num_players
        /\ num_players <= multiplayer_quests[j].max_players}}

\* the templates random.choice draws from
template_choices(num_players) ==
    IF suitable_quests(num_players) = {}
    THEN quest_templates
    ELSE suitable_quests(num_players)

\* (value, num_players, difficulty_modifier * 10) at which the float product
\* value * total_modifier, resp. value * (total_modifier * 0.6), falls just
\* below the integer it equals exactly, so that int() gives one less;
\* complete for 1 to 9 players, the seven modifiers and the creatures of
\* levels 1 to 4.  The attack, value * (total_modifier * 0.8), has no such
\* case there.
HpFloatShortfalls ==
    {<<80, 2, 15>>, <<80, 6, 14>>, <<100, 2, 13>>, <<100, 2, 14>>, <<100, 2, 15>>,
     <<100, 5, 14>>, <<100, 6, 12>>, <<100, 6, 14>>, <<110, 2, 15>>, <<110, 6, 12>>,
     <<110, 6, 14>>, <<120, 2, 15>>, <<120, 6, 12>>, <<120, 6, 14>>, <<130, 2, 15>>,
     <<130, 6, 12>>, <<130, 6, 14>>}
DefenseFloatShortfalls ==
    {<<15, 6, 10>>, <<15, 6, 20>>, <<20, 6, 15>>}

\* player_scaling * 10
player_scaling(num_players) == 10 + (num_players - 1) * 4

\* the list after the appends of lines 238-241
multiplayer_abilities(special_abilities, num_players) ==
    special_abilities
      \o (IF num_players >= 3 THEN <<"Area Attack">> ELSE <<>>)
      \o (IF num_players >= 4 THEN <<"Regeneration">> ELSE <<>>)

\* _scale_creature_for_multiplayer: the creature it returns (the same
\* dictionary, changed in place)
scale_creature_for_multiplayer(creature, num_players, difficulty_modifier) ==
    LET total_modifier == player_scaling(num_players) * difficulty_modifier
        hp      == (creature.hp * total_modifier) \div 100
                     - (IF <<creature.hp, num_players, difficulty_modifier>>
                              \in HpFloatShortfalls THEN 1 ELSE 0)
        attack  == (creature.attack * total_modifier * 8) \div 1000
        defense == (creature.defense * total_modifier * 6) \div 1000
                     - (IF <<creature.defense, num_players, difficulty_modifier>>
                              \in DefenseFloatShortfalls THEN 1 ELSE 0)
    IN  [creature EXCEPT !.hp = hp, !.max_hp = hp, !.current_hp = hp,
                         !.attack = attack, !.defense = defense,
                         !.special_abilities =
                             multiplayer_abilities(@, num_players)]

bonus_items == {"Teamwork Medal", "Cooperation Token", "Guild Honor Badge",
                "Multiplayer Achievement"}

\* individual_rewards['items']: empty unless random.random() < 0.5, else
\* random.sample(bonus_items, random.randint(1, 2))
BonusDraws ==
    {<<>>} \cup {<<a>> : a \in bonus_items}
           \cup {pair \in bonus_items \X bonus_items : pair[1] # pair[2]}

RECURSIVE SumLevels(_)
SumLevels(players) ==
    IF players = <<>> THEN 0 ELSE Head(players) + SumLevels(Tail(players))

\* _calculate_multiplayer_rewards; avg_level is the quotient sum / len, not
\* truncated.  For rosters of up to 8 players of levels 1 and 4,
\* int(base * multiplier) in Python's floats is the exact product truncated.
calculate_multiplayer_rewards(players, creature, rewards_multiplier, items) ==
    LET n          == Len(players)
        multiplier == difficulty_multipliers(creature.difficulty) * rewards_multiplier
    IN  [gold       |-> ((40 * n + 20 * SumLevels(players)) * multiplier) \div (n * 1000),
         experience |-> ((30 * n + 15 * SumLevels(players)) * multiplier) \div (n * 1000),
         items      |-> items]

\* quest_system = QuestSystem(), when the manager keeps one quest system
\* for all its calls
QuestSystem_shared == bestiary

\* quest_system = QuestSystem(): the catalog of the quest system a call of
\* generate_multiplayer_quest constructs
QuestSystem == ancient_creatures

partyFrame == <<combatVars, sessionVars, threads, detached, character, team, passed_in>>

\* generate_multiplayer_quest(session), for the session of the roster
GenerateMultiplayerQuest ==
    /\ quest.calls < MaxCalls
    /\ \E template \in template_choices(Len(quest.players)),
          choice \in suitable_creatures(QuestSystem,
                                        SumLevels(quest.players) \div Len(quest.players)),
          giver \in QuestGivers, location \in Locations,
          items \in BonusDraws :
          LET players     == quest.players
              num_players == Len(players)
              avg_player  == SumLevels(players) \div num_players
              selected    == select_creature_for_player(QuestSystem[choice], avg_player)
              creature    == scale_creature_for_multiplayer(
                                 selected, num_players, template.difficulty_modifier)
          IN  /\ quest' = [status |-> "offered",
                           calls |-> quest.calls + 1,
                           players |-> players,
                           template |-> template,
                           level |-> avg_player,
                           choice |-> choice,
                           selected |-> selected,
                           returned |->
                             [title |-> <<"title_format", template.type,
                                          creature.name, location>>,
                              description |-> <<"description_format", template.type,
                                                creature.name, location>>,
                              type |-> template.type,
                              giver |-> giver,
                              target |-> creature,
                              location |-> location,
                              difficulty |-> creature.difficulty,
                              multiplayer |-> TRUE,
                              required_players |-> template.min_players,
                              reward |-> calculate_multiplayer_rewards(
                                             players, creature,
                                             template.rewards_multiplier, items)]]
              /\ bestiary' = [QuestSystem EXCEPT ![choice] = template_after(@, creature)]
    /\ last' = Call("generate_multiplayer_quest", "none", "none", "none")
    /\ UNCHANGED partyFrame

PartyNext == GenerateMultiplayerQuest

\* a session of some roster, on a manager on which no quest has been
\* generated yet
PartyInit ==
    /\ \E players \in PartyRosters :
       quest = [status |-> "requested", calls |-> 0, players |-> players,
                template |-> [type |-> "none", min_players |-> 0, max_players |-> 0,
                              difficulty_modifier |-> 0, rewards_multiplier |-> 0],
                level |-> 0, choice |-> 0, selected |-> NoCreature,
                returned |-> <<>>]
    /\ bestiary = ancient_creatures
    /\ passed_in = "none"
    /\ last = Call("init", "none", "none", "none")
    /\ CombatIdle
    /\ SessionIdle
    /\ threads = <<>>
    /\ detached = <<>>
    /\ character = "none"
    /\ team = "none"

PartySpec == PartyInit /\ [][PartyNext]_vars

(***************************************************************************)
(* Properties of the combat engine (checked under CombatSpec)              *)
(***************************************************************************)

\* C1: after an enemy_turn call on an ongoing combat, whichever action the
\* enemy chose, the player's current_hp is >= 0, and if it is 0 the status
\* is 'defeat'.
C1_EnemyTurnZeroHpIsDefeat ==
    [][(status = "ongoing" /\ last'.op = "enemy_turn")
         => /\ player'.current_hp >= 0
            /\ (player'.current_hp = 0 => status' = "defeat")]_vars

\* C2: in every state reached from initialize_combat by player_attack,
\* player_defend and enemy_turn, 0 <= current_hp <= max_hp holds for the
\* player and for the enemy.
C2_HpWithinBounds ==
    /\ 0 <= player.current_hp /\ player.current_hp <= player.max_hp
    /\ 0 <= enemy.current_hp /\ enemy.current_hp <= enemy.max_hp

\* the heal of player_defend met the cap and an attack brought the enemy to 0
C2_Witness ==
    /\ last.op = "player_attack"
    /\ player_defending
    /\ player.current_hp = player.max_hp
    /\ enemy.current_hp = 0

\* C3: player_attack never leaves the enemy's current_hp negative; when it
\* brings the enemy to 0 the status becomes 'victory' and the turn is not
\* handed over; when the enemy survives an ongoing combat stays 'ongoing'
\* and the turn becomes 'enemy'.
C3_PlayerAttackOutcome ==
    [][last'.op = "player_attack"
         => /\ enemy'.current_hp >= 0
            /\ (enemy'.current_hp = 0 => (status' = "victory" /\ turn' = turn))
            /\ (enemy'.current_hp > 0
                  => /\ turn' = "enemy"
                     /\ (status = "ongoing" => status' = "ongoing"))]_vars

\* a player_attack on the player's turn has just won the combat
C3_Witness ==
    /\ last.op = "player_attack"
    /\ enemy.current_hp = 0
    /\ status = "victory"
    /\ turn = "player"

\* C4: 'victory' and 'defeat' are terminal: once the status is one of them,
\* a further player_attack, player_defend or enemy_turn leaves HP, turn,
\* round, status and log unchanged.
C4_TerminalStatusFreezesCombat ==
    [][(status \in {"victory", "defeat"})
         => (/\ player'.current_hp = player.current_hp
             /\ enemy'.current_hp = enemy.current_hp
             /\ turn' = turn
             /\ round' = round
             /\ status' = status
             /\ log' = log)]_vars

(***************************************************************************)
(* Properties of the session manager (checked under SessionSpec)           *)
(***************************************************************************)

\* the session of a join_session call is full when the call is made
JoinOnFull(sid) ==
    /\ last'.op = "join_session"
    /\ last'.arg = sid
    /\ sid \in DOMAIN active_sessions
    /\ Len(active_sessions[sid].players) = active_sessions[sid].max_players

\* C5: join_session on a session whose roster size equals max_players
\* returns False for every player and leaves that session's roster and the
\* player->session index unchanged.
C5_JoinFullRejected ==
    [][\A sid \in Ids :
          JoinOnFull(sid)
            => (/\ last'.ret = "False"
                /\ sid \in DOMAIN active_sessions'
                /\ active_sessions'[sid].players = active_sessions[sid].players
                /\ player_sessions' = player_sessions)]_vars

\* an unmapped player was refused by a waiting session of at least 2 seats
\* that is exactly full
C5_Witness ==
    /\ last.op = "join_session"
    /\ last.ret = "False"
    /\ last.arg \in DOMAIN active_sessions
    /\ last.who \notin DOMAIN player_sessions
    /\ active_sessions[last.arg].status = "waiting"
    /\ active_sessions[last.arg].max_players >= 2
    /\ Len(active_sessions[last.arg].players) = active_sessions[last.arg].max_players

\* C6: once start_session has succeeded for a session id, every later
\* join_session on that id returns False and the roster of that id never
\* grows again, whatever create/join/leave/start/cleanup calls follow.
C6_NoJoinAfterStart ==
    [][\A sid \in started_ids :
          /\ (last'.op = "join_session" /\ last'.arg = sid) => last'.ret = "False"
          /\ ((sid \in DOMAIN active_sessions /\ sid \in DOMAIN active_sessions')
                => Len(active_sessions'[sid].players) <= Len(active_sessions[sid].players))]_vars

\* the id is not that of a session waiting for players
NotOpen(sid) ==
    ~(sid \in DOMAIN active_sessions /\ active_sessions[sid].status = "waiting")

\* C6 as amended: once start_session has succeeded for a session id, then
\* until a later create_session call returns that same id, every
\* join_session on that id returns False and the roster of that id never
\* grows; only such a create_session call opens the id for joins again.
C6_NoJoinAfterStartUntilIdReused ==
    [][\A sid \in started_ids :
          NotOpen(sid)
            => (/\ (last'.op = "join_session" /\ last'.arg = sid) => last'.ret = "False"
                /\ ((sid \in DOMAIN active_sessions /\ sid \in DOMAIN active_sessions')
                      => Len(active_sessions'[sid].players)
                           <= Len(active_sessions[sid].players))
                /\ (~NotOpen(sid)' => (last'.op = "create_session" /\ last'.arg = sid)))]_vars

\* an unmapped player was refused by a started session that has a free seat
C6_Witness ==
    /\ last.op = "join_session"
    /\ last.ret = "False"
    /\ last.arg \in started_ids
    /\ last.arg \in DOMAIN active_sessions
    /\ last.who \notin DOMAIN player_sessions
    /\ active_sessions[last.arg].status = "in_progress"
    /\ Len(active_sessions[last.arg].players) < active_sessions[last.arg].max_players

\* C7: join_session returns False and changes no roster and no index entry
\* when the joining player's name is already mapped to a session, the same
\* session included.
C7_JoinMappedRejected ==
    [][(last'.op = "join_session" /\ last'.who \in DOMAIN player_sessions)
         => (/\ last'.ret = "False"
             /\ active_sessions' = active_sessions
             /\ player_sessions' = player_sessions)]_vars

\* a player was refused by the waiting, not full session the player is mapped to
C7_Witness ==
    /\ last.op = "join_session"
    /\ last.ret = "False"
    /\ last.arg \in DOMAIN active_sessions
    /\ last.who \in DOMAIN player_sessions
    /\ player_sessions[last.who] = last.arg
    /\ active_sessions[last.arg].status = "waiting"
    /\ Len(active_sessions[last.arg].players) < active_sessions[last.arg].max_players

\* C8: in every reachable state the player names in the roster of each
\* active session are pairwise distinct.
C8_RosterNamesDistinct ==
    \A sid \in DOMAIN active_sessions :
        \A i, j \in 1..Len(active_sessions[sid].players) :
            i # j => active_sessions[sid].players[i] # active_sessions[sid].players[j]

\* C9: in every reachable state every active session has max_players >= 2
\* and 1 <= roster size <= max_players.
C9_RosterSizeWithinCapacity ==
    \A sid \in DOMAIN active_sessions :
        /\ active_sessions[sid].max_players >= 2
        /\ 1 <= Len(active_sessions[sid].players)
        /\ Len(active_sessions[sid].players) <= active_sessions[sid].max_players

\* C10: when the only player remaining in a session's roster calls
\* leave_session, the call returns True, the session is deleted and
\* get_session on that id returns None afterwards.
C10_SoleLeaverClosesSession ==
    [][\A sid \in DOMAIN active_sessions :
          (last'.op = "leave_session" /\ Roster(active_sessions[sid]) = {last'.who})
            => (/\ last'.ret = "True"
                /\ sid \notin DOMAIN active_sessions'
                /\ get_session(sid)' = "None")]_vars

(***************************************************************************)
(* Properties of the lobby of three (checked under LobbySpec)              *)
(***************************************************************************)

\* the roster entries other than name, in their order
RECURSIVE Without(_, _)
Without(seq, name) ==
    IF seq = <<>> THEN <<>>
    ELSE IF Head(seq) = name THEN Without(Tail(seq), name)
         ELSE <<Head(seq)>> \o Without(Tail(seq), name)

\* C11: when the host leaves a session in which other players remain, the
\* session stays active, its roster is the remaining entries in their former
\* order and host_player is the first of them; when a player who is not the
\* host leaves and others remain, host_player is unchanged.
C11_HostHandover ==
    [][\A sid \in LobbyIds :
         (last'.op = "leave_session" /\ last'.ret = "True" /\ last'.arg = sid)
         => LET session == active_sessions[sid]
                rest    == Without(session.players, last'.who)
            IN  (rest # <<>>)
                => (/\ sid \in DOMAIN active_sessions'
                    /\ active_sessions'[sid].players = rest
                    /\ active_sessions'[sid].host_player =
                          IF session.host_player = last'.who
                          THEN rest[1]
                          ELSE session.host_player)]_vars

\* the host of a three-player session has left and the second entry is host
C11_Witness ==
    /\ last.op = "leave_session"
    /\ last.ret = "True"
    /\ last.arg \in DOMAIN active_sessions
    /\ Len(active_sessions[last.arg].players) = 2
    /\ last.who \notin Roster(active_sessions[last.arg])
    /\ active_sessions[last.arg].players[1] # active_sessions[last.arg].players[2]
    /\ active_sessions[last.arg].host_player = active_sessions[last.arg].players[1]

(***************************************************************************)
(* Properties of the session manager, continued (checked under SessionSpec)*)
(***************************************************************************)

\* the session exists, is waiting and has at least two roster entries
Startable(sid) ==
    /\ sid \in DOMAIN active_sessions
    /\ active_sessions[sid].status = "waiting"
    /\ Len(active_sessions[sid].players) >= 2

\* C12: start_session returns True and sets the status to 'in_progress'
\* exactly when the session exists, is 'waiting' and has at least 2 roster
\* entries; in every other case it returns False and no session changes.
C12_StartOutcome ==
    [][\A sid \in Ids :
         (last'.op = "start_session" /\ last'.arg = sid)
         => IF Startable(sid)
            THEN /\ last'.ret = "True"
                 /\ active_sessions'[sid].status = "in_progress"
                 /\ active_sessions'[sid].players = active_sessions[sid].players
            ELSE /\ last'.ret = "False"
                 /\ active_sessions' = active_sessions
                 /\ player_sessions' = player_sessions]_vars

\* a session of two players has just been started
C12_Witness ==
    /\ last.op = "start_session"
    /\ last.ret = "True"
    /\ active_sessions[last.arg].status = "in_progress"
    /\ Roster(active_sessions[last.arg]) = Names

\* C13: a create_session call with max_players < 2 reports a failure (it
\* does not return a session id) and changes neither active_sessions nor
\* player_sessions.
C13_CreateRejectsSmallCapacity ==
    [][(last'.op = "create_session" /\ last'.max_players < 2)
         => (/\ last'.ret \notin Ids
             /\ active_sessions' = active_sessions
             /\ player_sessions' = player_sessions)]_vars

\* C14: the id create_session returns is not the id of a session that is
\* active when the call is made, so the call replaces no active session.
C14_CreatedIdIsFresh ==
    [][(last'.op = "create_session")
         => (/\ last'.ret \notin DOMAIN active_sessions
             /\ \A id \in DOMAIN active_sessions :
                   /\ id \in DOMAIN active_sessions'
                   /\ active_sessions'[id] = active_sessions[id])]_vars

\* the active sessions older than max_age_hours hours
OlderThan(max_age_hours) ==
    {id \in DOMAIN active_sessions :
        now - active_sessions[id].created_at > max_age_hours * SecondsPerHour}

\* C15: cleanup_expired_sessions(max_age) removes exactly the active
\* sessions whose age is strictly greater than max_age hours, returns how
\* many it removed, and afterwards no player_sessions entry refers to a
\* removed session.
C15_CleanupRemovesExpired ==
    [][\A h \in MaxAgeInputs :
         (last'.op = "cleanup_expired_sessions" /\ last'.max_age_hours = h)
         => (/\ DOMAIN active_sessions' = DOMAIN active_sessions \ OlderThan(h)
             /\ \A id \in DOMAIN active_sessions' :
                   active_sessions'[id] = active_sessions[id]
             /\ last'.ret = ToString(Cardinality(OlderThan(h)))
             /\ \A n \in DOMAIN player_sessions' :
                   player_sessions'[n] \notin OlderThan(h))]_vars

(***************************************************************************)
(* Properties of concurrent calls (checked under RaceSpec)                 *)
(***************************************************************************)

\* C16: while join_session calls by different players run concurrently on
\* the same waiting session, the roster of the session never holds more
\* than max_players entries.
C16_ConcurrentJoinsWithinCapacity ==
    \A t \in RaceThreads :
        threads[t].op = "join_session"
        => Len(Obj(threads[t].sid).players) <= Obj(threads[t].sid).max_players

\* the joins that have returned True
Joined == {t \in RaceThreads : threads[t].op = "join_session" /\ threads[t].ret = "True"}

\* C17: a join_session racing a leave_session or a start_session never adds
\* a player to a session that is in_progress, and when it has returned True
\* the player is mapped to a session that is active.
C17_JoinSerializesWithLeaveAndStart ==
    [][/\ \A sid \in DOMAIN active_sessions :
            (active_sessions[sid].status = "in_progress"
               /\ sid \in DOMAIN active_sessions')
            => Len(active_sessions'[sid].players) <= Len(active_sessions[sid].players)
       /\ \A t \in Joined' :
            player_sessions'[threads'[t].name] \in DOMAIN active_sessions']_vars

(***************************************************************************)
(* Properties of character progression (checked under LevelSpec)           *)
(***************************************************************************)

\* C18: after level_up, for every class and every growth draw, the level is
\* one higher, max_hp has grown by 8 to 15, current_hp equals max_hp, and
\* the top-level max_hp equals stats.max_hp.
C18_LevelUpRestoresAndGrows ==
    [][(last'.op = "level_up")
         => (/\ character'.level = character.level + 1
             /\ (character'.max_hp - character.max_hp) \in 8..15
             /\ character'.max_hp > character.max_hp
             /\ character'.current_hp = character'.max_hp
             /\ character'.max_hp = character'.stats.max_hp)]_vars

\* a magician that was at 1 HP has levelled up with the largest HP draw
C18_Witness ==
    /\ last.op = "level_up"
    /\ character.class = "magician"
    /\ character.level = 2
    /\ character.max_hp = 95
    /\ character.current_hp = 95

(***************************************************************************)
(* Properties of the team turn order (checked under TeamSpec)              *)
(***************************************************************************)

\* the one-to-one assignments of turn-order slots to roster positions
SlotAssignments(n) == {f \in [1..n -> 1..n] : \A i, j \in 1..n : f[i] = f[j] => i = j}

\* C19: the turn order of a roster of n players has length 2n, "enemy" at
\* every odd 0-based position and, at the even positions, the roster
\* players each exactly once, in non-increasing agility with players of
\* equal agility in roster order; agilities 20 and 10 give
\* [high, "enemy", low, "enemy"].
C19_TurnOrderShape ==
    (team.turn_order # <<>>)
    => LET n      == Len(team.players)
           roster == team.players
           order  == team.turn_order
       IN  /\ Len(order) = 2 * n
           /\ \A k \in 1..n : order[2 * k] = "enemy"
           /\ \E f \in SlotAssignments(n) :
                 /\ \A k \in 1..n : order[2 * k - 1] = roster[f[k]].name
                 /\ \A k \in 1..(n - 1) :
                       \/ roster[f[k]].agility > roster[f[k + 1]].agility
                       \/ /\ roster[f[k]].agility = roster[f[k + 1]].agility
                          /\ f[k] < f[k + 1]
           /\ \A high, low \in 1..n :
                 (n = 2 /\ roster[high].agility = 20 /\ roster[low].agility = 10)
                 => order = <<roster[high].name, "enemy", roster[low].name, "enemy">>

\* bob (20) goes first; ann and cy (both 10) follow in roster order
C19_Witness ==
    /\ team.players = <<[name |-> "ann", agility |-> 10],
                        [name |-> "bob", agility |-> 20],
                        [name |-> "cy", agility |-> 10]>>
    /\ team.turn_order = <<"bob", "enemy", "ann", "enemy", "cy", "enemy">>

(***************************************************************************)
(* Properties of the quest rewards (checked under QuestSpec)               *)
(***************************************************************************)

\* the multipliers as the specification lists them, times 10
ListedMultiplier(difficulty) ==
    CASE difficulty = "easy"      -> 8
      [] difficulty = "medium"    -> 10
      [] difficulty = "hard"      -> 13
      [] difficulty = "legendary" -> 16

\* amount = trunc(base * m), with m given in hundredths
IsTrunc(amount, base, m) ==
    /\ amount * 100 <= base * m
    /\ base * m < (amount + 1) * 100

\* C20: the gold of a solo quest reward is trunc((50 + 25*level) * m) and
\* the experience trunc((40 + 20*level) * m), where m is the multiplier of
\* the creature's difficulty times the template's difficulty_modifier,
\* whatever the item draw; level 3, medium, modifier 1.0 gives gold 125.
C20_RewardFormula ==
    (quest.status = "offered")
    => LET m == ListedMultiplier(quest.difficulty) * quest.difficulty_modifier
       IN  /\ IsTrunc(quest.reward.gold, 50 + 25 * quest.level, m)
           /\ IsTrunc(quest.reward.experience, 40 + 20 * quest.level, m)
           /\ (quest.level = 3 /\ quest.difficulty = "medium"
                  /\ quest.difficulty_modifier = 10)
              => quest.reward.gold = 125

\* a level 3 player, a medium creature, the hunt template, and items dropped
C20_Witness ==
    /\ quest.level = 3
    /\ quest.difficulty = "medium"
    /\ quest.difficulty_modifier = 10
    /\ quest.status = "offered"
    /\ quest.reward.gold = 125
    /\ quest.reward.items # <<>>

\* the difficulties the specification allows at a level
AllowedAtLevel(level) ==
    IF level <= 2 THEN {"easy"}
    ELSE IF level <= 5 THEN {"easy", "medium"}
    ELSE IF level <= 8 THEN {"medium", "hard"}
    ELSE {"easy", "medium", "hard", "legendary"}

\* trunc(value * (1 + (level - 1) * 0.1))
ScaledExactly(value, level) == (value * (10 + (level - 1))) \div 10

\* C21: the creature selected for a quest has a difficulty allowed for the
\* player's level, its hp, attack and defense are the template values
\* multiplied by 1 + (level-1)*0.1 and truncated, and current_hp = max_hp =
\* the scaled hp; at level 1 the stats are the template's.
C21_CreatureFitsLevel ==
    (quest.status = "offered")
    => \E i \in 1..Len(ancient_creatures) :
          LET template == ancient_creatures[i]
              creature == quest.target
          IN  /\ creature.name = template.name
              /\ creature.difficulty \in AllowedAtLevel(quest.level)
              /\ creature.hp = ScaledExactly(template.hp, quest.level)
              /\ creature.attack = ScaledExactly(template.attack, quest.level)
              /\ creature.defense = ScaledExactly(template.defense, quest.level)
              /\ creature.max_hp = creature.hp
              /\ creature.current_hp = creature.hp
              /\ (quest.level = 1)
                 => (/\ creature.hp = template.hp
                     /\ creature.attack = template.attack
                     /\ creature.defense = template.defense)

\* the quest as generate_quest builds it before it calls the enhancer
Unenhanced ==
    base_quest(quest.difficulty_modifier, quest.target, quest.giver, quest.location,
               quest.reward)

\* the fields that are in the quest before the merge
QuestFields == {"title", "description", "type", "giver", "target", "location",
                "difficulty", "reward"}

\* C22: when the enhancer raises, returns nothing, or returns content that
\* is not a mapping, generate_quest returns a quest whose title, type,
\* giver, target, location, difficulty and reward are the unenhanced ones.
C22_EnhancerFailureKeepsQuest ==
    (quest.status = "offered" /\ quest.enhanced_quest.kind # "object")
    => \A k \in QuestFields \ {"description"} :
          /\ k \in DOMAIN quest.returned
          /\ quest.returned[k] = Unenhanced[k]

\* C23: whatever mapping the enhancer returns, every field the quest had
\* before the merge (reward gold and experience and the target's stats
\* among them) is unchanged after it.
C23_MergeOnlyAddsFields ==
    (quest.status = "offered" /\ quest.enhanced_quest.kind = "object")
    => \A k \in QuestFields :
          /\ k \in DOMAIN quest.returned
          /\ quest.returned[k] = Unenhanced[k]

(***************************************************************************)
(* C24: instantiating a creature never mutates the bestiary: after         *)
(* _select_creature_for_player and _scale_creature_for_multiplayer, for    *)
(* any number of players, every template of the catalog the creature was   *)
(* drawn from has the hp, attack, defense and special-ability list it had  *)
(* before.                                                                 *)
(***************************************************************************)
C24_BestiaryNotMutated ==
    quest.status = "offered"
    => \A i \in DOMAIN QuestSystem :
          /\ bestiary[i].hp = QuestSystem[i].hp
          /\ bestiary[i].attack = QuestSystem[i].attack
          /\ bestiary[i].defense = QuestSystem[i].defense
          /\ bestiary[i].special_abilities = QuestSystem[i].special_abilities

(***************************************************************************)
(* C26: generate_multiplayer_quest picks a team template whose range       *)
(* [min_players, max_players] contains the roster size whenever there is   *)
(* one, and a solo template only when there is none.                       *)
(***************************************************************************)
TeamTemplates == {multiplayer_quests[i] : i \in DOMAIN multiplayer_quests}

Fits(template, n) == template.min_players <= n /\ n <= template.max_players

C26_TeamTemplateWhenOneFits ==
    quest.status = "offered"
    => IF \E t \in TeamTemplates : Fits(t, Len(quest.players))
       THEN /\ quest.template \in TeamTemplates
            /\ Fits(quest.template, Len(quest.players))
            /\ quest.returned.type = quest.template.type
       ELSE /\ quest.template \notin TeamTemplates
            /\ quest.returned.type \in {"hunt", "protect", "investigate", "urgent"}

C26_Witness ==
    /\ quest.status = "offered"
    /\ Len(quest.players) = 2
    /\ quest.returned.type = "rescue"

(***************************************************************************)
(* C27: a creature scaled for n players, with f = 1 + (n - 1) * 0.4, has   *)
(* hp = trunc(hp * f), attack = trunc(attack * 0.8 * f),                   *)
(* defense = trunc(defense * 0.6 * f) and max_hp = current_hp = hp.        *)
(***************************************************************************)
C27_MultiplayerScaling ==
    quest.status = "offered"
    => LET f10    == 10 + (Len(quest.players) - 1) * 4
           before == quest.selected
           target == quest.returned.target
       IN  /\ target.hp = (before.hp * f10) \div 10
           /\ target.attack = (before.attack * 8 * f10) \div 100
           /\ target.defense = (before.defense * 6 * f10) \div 100
           /\ target.max_hp = target.hp
           /\ target.current_hp = target.hp

(***************************************************************************)
(* C28: over every sequence of generate_multiplayer_quest calls on one     *)
(* manager, the target of the quest has "Area Attack" exactly when the     *)
(* roster has at least 3 players and "Regeneration" exactly when it has at *)
(* least 4, each once.                                                     *)
(***************************************************************************)
Occurrences(seq, x) == Cardinality({i \in DOMAIN seq : seq[i] = x})

C28_ThresholdAbilitiesOnce ==
    quest.status = "offered"
    => LET abilities == quest.returned.target.special_abilities
           n         == Len(quest.players)
       IN  /\ Occurrences(abilities, "Area Attack") = (IF n >= 3 THEN 1 ELSE 0)
           /\ Occurrences(abilities, "Regeneration") = (IF n >= 4 THEN 1 ELSE 0)

C28_Witness ==
    /\ quest.status = "offered"
    /\ quest.calls = 2
    /\ Len(quest.players) >= 4
    /\ bestiary[quest.choice].special_abilities
         = quest.returned.target.special_abilities
    /\ Occurrences(quest.returned.target.special_abilities, "Regeneration") = 1

(***************************************************************************)
(* C25: combat works on copies: after initialize_combat(player, enemy), no *)
(* sequence of player_attack, player_defend and enemy_turn changes the     *)
(* current_hp, the attack or any other field of the player and enemy       *)
(* records that were passed in.                                            *)
(***************************************************************************)
C25_ArgumentsUntouched == [][passed_in' = passed_in]_vars

C25_Witness ==
    /\ enemy.current_hp < passed_in.enemy.current_hp
    /\ enemy.attack > passed_in.enemy.attack
    /\ last.op = "enemy_turn"

(***************************************************************************)
(* C29: the player_defending flag is one-shot: only player_defend sets it; *)
(* the enemy attack that finds it set is halved (floor, at least 1) before *)
(* the player's defense is subtracted, and clears it; no enemy attack is   *)
(* halved unless the player defended since the previous enemy turn, that   *)
(* is, the flag does not survive an enemy turn.                            *)
(***************************************************************************)
\* the enemy attack of this step was announced as reduced
Halved == Len(log') > Len(log) /\ log'[Len(log) + 1] = "defense_reduces"

\* the player HP an enemy attack leaves for some variance, halved or not
AttackLeaves(halved) ==
    {Max(0, player.current_hp
              - Max(1, (IF halved THEN Max(1, (enemy.attack + v) \div 2)
                                  ELSE enemy.attack + v) - player.defense)) :
        v \in -2..2}

C29_DefendingIsOneShot ==
    [][/\ (player_defending' /\ ~player_defending) => last'.op = "player_defend"
       /\ last'.op = "enemy_turn" => ~player_defending'
       /\ (last'.op = "enemy_turn" /\ last'.arg = "attack")
            => /\ Halved <=> player_defending
               /\ player'.current_hp \in AttackLeaves(player_defending)]_vars

(***************************************************************************)
(* C30: when the enemy uses Venomous Bite, the ability whose effect        *)
(* profile carries the poison effect, the player loses in that enemy turn  *)
(* max(1, trunc(base * 1.2) - defense) plus a flat 5 poison damage, the HP *)
(* floored at 0.                                                           *)
(***************************************************************************)
\* the player HP the bite leaves for some variance of the base damage
BiteLeaves ==
    {Max(0, player.current_hp
              - (Max(1, ((enemy.attack + v) * 12) \div 10 - player.defense) + 5)) :
        v \in -2..2}

C30_VenomousBiteAddsPoison ==
    [][(last'.op = "enemy_turn" /\ last'.arg = "special" /\ last'.who = "Venomous Bite")
         => player'.current_hp \in BiteLeaves]_vars

(***************************************************************************)
(* C31: turn and round bookkeeping: a player_attack that does not defeat   *)
(* the enemy and every player_defend set turn to "enemy" and leave round   *)
(* unchanged; every enemy_turn that does not end in defeat sets turn to    *)
(* "player" and adds exactly 1 to round; round starts at 1 and never       *)
(* decreases.                                                              *)
(***************************************************************************)
C31_TurnAndRound ==
    [][/\ (last'.op = "player_attack" /\ enemy'.current_hp > 0)
            => (turn' = "enemy" /\ round' = round)
       /\ last'.op = "player_defend" => (turn' = "enemy" /\ round' = round)
       /\ (last'.op = "enemy_turn" /\ status' # "defeat")
            => (turn' = "player" /\ round' = round + 1)
       /\ round' >= round
       /\ round >= 1]_vars

C31_Witness ==
    /\ round = 3
    /\ turn = "player"
    /\ \E i \in DOMAIN log : log[i] = "defend"
    /\ \E i \in DOMAIN log : log[i] = "attack"

(***************************************************************************)
(* C32: in every state reached by create_session, join_session,            *)
(* leave_session, start_session and cleanup_expired_sessions called one    *)
(* after the other, every entry name -> id of the player index refers to   *)
(* an active session whose roster contains that name.                      *)
(***************************************************************************)
C32_IndexEntriesPointIntoRosters ==
    \A name \in DOMAIN player_sessions :
        /\ player_sessions[name] \in DOMAIN active_sessions
        /\ name \in Roster(active_sessions[player_sessions[name]])

(***************************************************************************)
(* C33: in every state reached by session-manager calls made one after the *)
(* other, every player in the roster of an active session is mapped by the *)
(* player index to that session, so a player is in at most one roster,     *)
(* also when a player who is in a session creates a new one.               *)
(***************************************************************************)
C33_RosterMembersAreIndexed ==
    \A id \in DOMAIN active_sessions :
        \A name \in Roster(active_sessions[id]) :
            /\ name \in DOMAIN player_sessions
            /\ player_sessions[name] = id

(***************************************************************************)
(* C34: in every reachable state of the session manager the host_player of *)
(* every active session is a player of that session's roster.              *)
(***************************************************************************)
C34_HostIsInRoster ==
    \A id \in DOMAIN active_sessions :
        active_sessions[id].host_player \in Roster(active_sessions[id])

C34_Witness ==
    /\ last.op = "leave_session"
    /\ last.ret = "True"
    /\ last.arg \in DOMAIN active_sessions
    /\ active_sessions[last.arg].host_player # last.who
    /\ active_sessions[last.arg].created_at < now

(***************************************************************************)
(* C35: cleanup_expired_sessions leaves every session that is not expired  *)
(* unchanged (roster, host, status) and leaves unchanged every entry of    *)
(* the player index that points to a session that is not expired.          *)
(***************************************************************************)
\* the active sessions the sweep with that threshold must keep
Kept(max_age_hours) ==
    {id \in DOMAIN active_sessions :
        (now - active_sessions[id].created_at) <= max_age_hours * SecondsPerHour}

C35_CleanupKeepsTheRest ==
    [][last'.op = "cleanup_expired_sessions"
         => /\ \A id \in Kept(last'.max_age_hours) :
                  /\ id \in DOMAIN active_sessions'
                  /\ active_sessions'[id] = active_sessions[id]
            /\ \A name \in DOMAIN player_sessions :
                  player_sessions[name] \in Kept(last'.max_age_hours)
                  => /\ name \in DOMAIN player_sessions'
                     /\ player_sessions'[name] = player_sessions[name]]_vars

(***************************************************************************)
(* C36: combat terminates when the player keeps attacking: when the player *)
(* chooses player_attack on every player turn and the turns alternate with *)
(* enemy_turn, the status eventually becomes "victory" or "defeat",        *)
(* whatever the random draws and the enemy's actions.                      *)
(***************************************************************************)
C36_AttackingEndsCombat == <>(status \in {"victory", "defeat"})

C36_Witness ==
    /\ status = "victory"
    /\ round = MaxDuel
    /\ player.current_hp = 0
    /\ last.op = "player_attack"

(***************************************************************************)
(* C37: for every session generate_multiplayer_quest is called on, of any  *)
(* roster size from 1, the quest's required_players does not exceed the    *)
(* session's roster size.                                                  *)
(***************************************************************************)
C37_RequiredPlayersWithinRoster ==
    quest.status = "offered"
    => quest.returned.required_players <= Len(quest.players)

====
